---- MODULE Spec2Model ----
(***************************************************************************)
(* Model of lib/sentiment/sentiment-analyzer.js: the SentimentAnalyzer     *)
(* class (constructor, loadVocabulary, addVocabulary, getSentiment,        *)
(* normalize).                                                             *)
(*                                                                         *)
(* Strings are sequences of one-character strings, so that toLowerCase()   *)
(* and the index expression token[0] are computed and not assumed.         *)
(* JavaScript values that can be a number, NaN, undefined or an object     *)
(* are records [t |-> <tag>, v |-> <integer>].                             *)
(***************************************************************************)
EXTENDS Integers, Sequences, FiniteSets, TLC

\* Longest utterance (in tokens) passed to getSentiment.
MaxLen == 3

\* Largest |score| and |alpha| passed to a direct call of normalize.
MaxArg == 3

-----------------------------------------------------------------------------
(* JavaScript values *)

Num(n) == [t |-> "number", v |-> n]
NaN == [t |-> "NaN", v |-> 0]
Undefined == [t |-> "undefined", v |-> 0]
\* a non-number, non-undefined value (a function or object)
ObjectValue == [t |-> "object", v |-> 0]

IsNumber(x) == x.t = "number"

\* negator * x : a number when x is a number, NaN for undefined or an object
Times(negator, x) == IF IsNumber(x) THEN Num(negator * x.v) ELSE NaN

\* score += temp
Plus(a, b) == IF IsNumber(a) /\ IsNumber(b) THEN Num(a.v + b.v) ELSE NaN

\* x < n : undefined converts to NaN, and a comparison with NaN is false
LessThan(x, n) == IsNumber(x) /\ x.v < n

\* n[i] for a number n, as in tokens.length[0]: a number has no such property
NumberProperty(n, i) == Undefined

\* score / words.length, kept exact as numerator and denominator.
\* 0 / 0 and NaN / n are NaN; x / 0 is +-Infinity.
Divide(a, n) ==
  IF ~IsNumber(a) THEN [t |-> "NaN", num |-> 0, den |-> 1]
  ELSE IF n = 0
    THEN IF a.v = 0 THEN [t |-> "NaN", num |-> 0, den |-> 1]
         ELSE IF a.v > 0 THEN [t |-> "Infinity", num |-> 1, den |-> 0]
         ELSE [t |-> "-Infinity", num |-> -1, den |-> 0]
  ELSE [t |-> "number", num |-> a.v, den |-> n]

\* the literal 0 of the degraded result
Zero == [t |-> "number", num |-> 0, den |-> 1]

-----------------------------------------------------------------------------
(* Strings *)

Str1(c) == <<c>>

LowerChar(c) ==
  CASE c = "G" -> "g"
    [] c = "N" -> "n"
    [] c = "B" -> "b"
    [] c = "C" -> "c"
    [] OTHER -> c

\* String.prototype.toLowerCase
toLowerCase(s) == [i \in 1..Len(s) |-> LowerChar(s[i])]

\* token[0]: the first character as a string, undefined for the empty string.
\* Used as a property key, undefined reads the key "undefined".
CharAt0(s) ==
  IF Len(s) = 0 THEN <<"u", "n", "d", "e", "f", "i", "n", "e", "d">>
  ELSE Str1(s[1])

IsLetter(c) == c \notin {",", "-", " "}

w_not == <<"n", "o", "t">>
w_good == <<"g", "o", "o", "d">>
w_bad == <<"b", "a", "d">>
w_goods == <<"g", "o", "o", "d", "s">>
w_Goods == <<"G", "o", "o", "d", "s">>
w_g == <<"g">>
w_comma == <<",">>
w_constructor == <<"c", "o", "n", "s", "t", "r", "u", "c", "t", "o", "r">>
w_good_bad == <<"g", "o", "o", "d", "-", "b", "a", "d">>

\* The tokens an utterance is made of.
Tokens == {w_not, w_good, w_bad, w_goods, w_Goods, w_comma, w_constructor}

\* the sequences over S of length at most n
SeqsUpTo(S, n) == UNION {[1..k -> S] : k \in 0..n}

\* the negation example of the specification's test list
ExampleUtterance == <<w_not, w_good, w_comma, w_bad>>

\* the utterances passed to getSentiment
Utterances == SeqsUpTo(Tokens, MaxLen) \cup {ExampleUtterance}

-----------------------------------------------------------------------------
(* Plain objects used as dictionaries: a sequence of <<key, weight>> pairs  *)
(* with unique keys, in insertion order (the order of Object.keys).         *)

OwnKeys(o) == {o[i][1] : i \in 1..Len(o)}

\* Object.keys(o)
ObjectKeys(o) == [i \in 1..Len(o) |-> o[i][1]]

OwnValue(o, k) == LET i == CHOOSE j \in 1..Len(o) : o[j][1] = k IN o[i][2]

\* Lowercase property names every object literal inherits from Object.prototype.
ObjectPrototypeKeys == {w_constructor}

\* o[k] : an own property, else an inherited one, else undefined
Get(o, k) ==
  IF k \in OwnKeys(o) THEN Num(OwnValue(o, k))
  ELSE IF k \in ObjectPrototypeKeys THEN ObjectValue
  ELSE Undefined

\* Put that adds new keys but keeps the weight of a key already present
PutKeepsExisting(o, k, w) ==
  IF k \in OwnKeys(o) THEN o ELSE Append(o, <<k, w>>)

\* o[k] = w : overwrite in place, or add as the last key
Put(o, k, w) ==
  IF k \in OwnKeys(o)
    THEN [i \in 1..Len(o) |-> IF o[i][1] = k THEN <<k, w>> ELSE o[i]]
  ELSE Append(o, <<k, w>>)

\* a field holding an object, or undefined
Obj(o) == [t |-> "object", map |-> o]
NoObj == [t |-> "undefined", map |-> <<>>]
Truthy(f) == f.t = "object"

\* array.indexOf(x) !== -1
Includes(array, x) == \E i \in 1..Len(array) : array[i] = x

-----------------------------------------------------------------------------
(* The stemmers an engine can be bound to *)

StopWords == {w_not}

StripS(w) == IF Len(w) > 1 /\ w[Len(w)] = "s" THEN SubSeq(w, 1, Len(w) - 1) ELSE w

\* split a string into its maximal runs of letters
RECURSIVE Split(_, _, _)
Split(s, cur, acc) ==
  IF Len(s) = 0 THEN (IF Len(cur) = 0 THEN acc ELSE Append(acc, cur))
  ELSE IF IsLetter(Head(s)) THEN Split(Tail(s), Append(cur, Head(s)), acc)
  ELSE Split(Tail(s), <<>>, IF Len(cur) = 0 THEN acc ELSE Append(acc, cur))

\* stemmer.tokenizeAndStem(word): a sequence of stems.
\* "default" is the language stemmer of NlpUtil.getStemmer: it tokenizes,
\* drops stop words and stems each token. "custom" is a caller-supplied
\* settings.stemmer that stems the whole string as one word.
TokenizeAndStem(stemmer, word) ==
  IF stemmer = "default"
    THEN LET toks == SelectSeq(Split(word, <<>>, <<>>), LAMBDA t : t \notin StopWords)
         IN [i \in 1..Len(toks) |-> StripS(toks[i])]
  ELSE <<StripS(word)>>

-----------------------------------------------------------------------------
(* The language files on disk.  A file name is modelled by the values that  *)
(* are interpolated into it.                                                *)

\* `./languages/${language}/${type}_${language}.json`
VocabularyFileNameOf(settings) == <<settings.language, settings.type>>

VocabularyFiles ==
  { <<"en", "senticon">>, <<"en", "afinn">>, <<"nl", "pattern">> }

\* JSON.parse(fs.readFileSync(file)): a fresh object on every read
ReadVocabularyFile(file) ==
  CASE file = <<"en", "senticon">> ->
         << <<w_bad, -2>>, <<w_g, 1>>, <<w_good_bad, 1>> >>
    [] file = <<"en", "afinn">> ->
         << <<w_good, 3>>, <<w_bad, -2>> >>
    [] file = <<"nl", "pattern">> ->
         << <<w_goods, 2>>, <<w_bad, -2>> >>

\* require(negationFileName).words || [], [] when the file is missing
ReadNegations(language) ==
  IF language = "en" THEN <<w_not>> ELSE <<>>

\* require(negationPunctuationFileName).punctuation || []
ReadNegationPunctuations(language) ==
  IF language = "en" THEN <<w_comma>> ELSE <<>>

\* NlpUtil.getStemmer(language)
GetStemmer(language) == "default"

-----------------------------------------------------------------------------
(* Constructor arguments *)

\* the settings argument; a field that is not in the record is undefined
SettingsInputs ==
  { l @@ t @@ u :
      l \in {<<>>, [language |-> "en"], [language |-> "nl"]},
      t \in {<<>>, [type |-> "afinn"]},
      u \in {<<>>, [useStemmer |-> TRUE], [useStemmer |-> FALSE],
             [stemmer |-> "custom"]} }

\* the dict argument: absent, or a dictionary of new and replaced words
DictInputs ==
  { NoObj,
    Obj(<< <<w_good, 5>>, <<w_goods, 1>> >>),
    Obj(<< <<w_not, 4>>, <<w_Goods, 7>>, <<w_bad, -1>>, <<w_comma, 2>> >>) }

Has(o, f) == f \in DOMAIN o

-----------------------------------------------------------------------------
(* constructor, loadVocabulary, addVocabulary *)

\* the default lexicon type of a language
DefaultType(language) ==
  IF language \in {"it", "fr", "nl"} THEN "pattern" ELSE "senticon"

\* this.settings after the constructor has filled in the defaults
\* (the tokenizer is not modelled: utterances are passed as token arrays)
ConstructorSettings(settings) ==
  LET language == IF Has(settings, "language") THEN settings.language ELSE "en"
      type == IF Has(settings, "type") THEN settings.type ELSE DefaultType(language)
      useStemmer == IF Has(settings, "useStemmer") THEN settings.useStemmer ELSE TRUE
  IN  [language |-> language, type |-> type, useStemmer |-> useStemmer,
       stemmer |-> IF Has(settings, "stemmer") THEN settings.stemmer ELSE "undefined"]

\* this.stemmer: settings.stemmer || NlpUtil.getStemmer(language), or undefined
ConstructorStemmer(s) ==
  IF s.useStemmer
    THEN IF s.stemmer # "undefined" THEN s.stemmer ELSE GetStemmer(s.language)
  ELSE "undefined"

\* addVocabulary: every key of dict is written into the vocabulary
RECURSIVE AddKeys(_, _, _)
AddKeys(vocabulary, dictMap, i) ==
  IF i > Len(dictMap) THEN vocabulary
  ELSE AddKeys(Put(vocabulary, dictMap[i][1], dictMap[i][2]), dictMap, i + 1)

addVocabulary(vocabulary, dict) ==
  IF Truthy(dict) THEN AddKeys(vocabulary, dict.map, 1) ELSE vocabulary

\* StemKeys that stores a word under its first token although its stemming
\* yields several tokens
RECURSIVE StemKeysFirstToken(_, _, _, _)
StemKeysFirstToken(vocabulary, stemmer, i, vocabularyStem) ==
  IF i > Len(vocabulary) THEN vocabularyStem
  ELSE LET word == ObjectKeys(vocabulary)[i]
           tokens == TokenizeAndStem(stemmer, word)
       IN StemKeysFirstToken(vocabulary, stemmer, i + 1,
                   IF Len(tokens) >= 1
                     THEN Put(vocabularyStem, tokens[1], OwnValue(vocabulary, word))
                   ELSE vocabularyStem)

\* Object.keys(vocabulary).forEach(word => ...) of loadVocabulary: a word
\* whose stemming yields one token stores its weight under that token
RECURSIVE StemKeys(_, _, _, _)
StemKeys(vocabulary, stemmer, i, vocabularyStem) ==
  IF i > Len(vocabulary) THEN vocabularyStem
  ELSE LET word == ObjectKeys(vocabulary)[i]
           tokens == TokenizeAndStem(stemmer, word)
       IN StemKeys(vocabulary, stemmer, i + 1,
                   IF Len(tokens) = 1
                     THEN Put(vocabularyStem, tokens[1], OwnValue(vocabulary, word))
                   ELSE vocabularyStem)

\* ParsedVocabulary whose catch leaves an empty lexicon instead of undefined
ParsedVocabularyEmptyOnFailure(file) ==
  IF file \in VocabularyFiles THEN Obj(ReadVocabularyFile(file)) ELSE Obj(<<>>)

\* the try/catch around JSON.parse(fs.readFileSync(...)): the parsed
\* lexicon, or undefined when the file cannot be read
ParsedVocabulary(file) ==
  IF file \in VocabularyFiles THEN Obj(ReadVocabularyFile(file)) ELSE NoObj

\* loadVocabulary that derives the stemmed lexicon from the parsed file,
\* before the dict is merged into the lexicon
loadVocabularyStemsBeforeMerge(s, dict, stemmer) ==
  LET file == VocabularyFileNameOf(s)
      parsed == ParsedVocabulary(file)
      merged == IF Truthy(dict) THEN addVocabulary(parsed.map, dict) ELSE parsed.map
  IN  [vocabularyFileName |-> file,
       vocabulary |-> IF Truthy(parsed) THEN Obj(merged) ELSE parsed,
       vocabularyStem |->
         IF Truthy(parsed)
           THEN Obj(IF stemmer # "undefined"
                      THEN StemKeys(parsed.map, stemmer, 1, <<>>)
                    ELSE <<>>)
         ELSE NoObj,
       negations |-> ReadNegations(s.language),
       negationPunctuations |-> ReadNegationPunctuations(s.language)]

\* loadVocabulary: the fields it assigns, from this.settings, this.dict and
\* this.stemmer
loadVocabulary(s, dict, stemmer) ==
  LET file == VocabularyFileNameOf(s)
      parsed == ParsedVocabulary(file)
      merged == IF Truthy(dict) THEN addVocabulary(parsed.map, dict) ELSE parsed.map
  IN  [vocabularyFileName |-> file,
       vocabulary |-> IF Truthy(parsed) THEN Obj(merged) ELSE parsed,
       vocabularyStem |->
         IF Truthy(parsed)
           THEN Obj(IF stemmer # "undefined"
                      THEN StemKeys(merged, stemmer, 1, <<>>)
                    ELSE <<>>)
         ELSE NoObj,
       negations |-> ReadNegations(s.language),
       negationPunctuations |-> ReadNegationPunctuations(s.language)]

-----------------------------------------------------------------------------
(* normalize *)

DefaultAlpha == 15

\* The result is kept exact: [t |-> "number", num |-> n, rad |-> r] is the
\* number n / sqrt(r), with r > 0.  Math.sqrt of a negative number is NaN, a
\* division by NaN is NaN, 0 / 0 is NaN and x / 0 is +-Infinity; a
\* comparison with NaN is false, so NaN passes both clamps.
normalize(score, alpha) ==
  LET rad == score.v * score.v + alpha IN
  IF ~IsNumber(score) \/ rad < 0 \/ (rad = 0 /\ score.v = 0)
    THEN [t |-> "NaN", num |-> 0, rad |-> 1]
  ELSE IF score.v < 0 /\ (rad = 0 \/ score.v * score.v > rad)
    THEN [t |-> "number", num |-> -1, rad |-> 1]
  ELSE IF score.v > 0 /\ (rad = 0 \/ score.v * score.v > rad)
    THEN [t |-> "number", num |-> 1, rad |-> 1]
  ELSE [t |-> "number", num |-> score.v, rad |-> rad]

-----------------------------------------------------------------------------
(* getSentiment *)

\* the locals of getSentiment before the scan
ScanStart == [score |-> Num(0), negator |-> 1, nrHits |-> 0, wordScores |-> <<>>]

\* OnNegator that flips the multiplier, so that a second negator undoes the first
OnNegatorToggles(st) == [st EXCEPT !.negator = -@, !.nrHits = @ + 1]

\* a negator: negator = -1; nrHits += 1
OnNegator(st) == [st EXCEPT !.negator = -1, !.nrHits = @ + 1]

\* OnNegationPunctuation that counts the punctuation as a hit
OnNegationPunctuationCounted(st) == [st EXCEPT !.negator = 1, !.nrHits = @ + 1]

\* negation punctuation: negator = 1
OnNegationPunctuation(st) == [st EXCEPT !.negator = 1]

\* Hit that counts the token twice
HitCountedTwice(st, weight, word, recorded) ==
  [st EXCEPT !.score = Plus(@, Times(st.negator, weight)),
             !.nrHits = @ + 2,
             !.wordScores = Append(@, [word |-> word,
                                       score |-> Times(st.negator, recorded)])]

\* a hit: score += negator * weight; nrHits += 1; wordScores.push({word, score})
Hit(st, weight, word, recorded) ==
  [st EXCEPT !.score = Plus(@, Times(st.negator, weight)),
             !.nrHits = @ + 1,
             !.wordScores = Append(@, [word |-> word,
                                       score |-> Times(st.negator, recorded)])]

\* ForEachToken that looks the token up in the lexicon before it tests the
\* negators and the negation punctuation
ForEachTokenLexiconFirst(self, st, token) ==
  LET lowerCased == toLowerCase(token)
      vocabulary == self.vocabulary.map
  IN
  IF Get(vocabulary, lowerCased) # Undefined
    THEN Hit(st, Get(vocabulary, lowerCased), lowerCased, Get(vocabulary, lowerCased))
  ELSE IF Includes(self.negations, lowerCased)
    THEN OnNegator(st)
  ELSE IF Includes(self.negationPunctuations, lowerCased)
    THEN OnNegationPunctuation(st)
  ELSE IF self.stemmer # "undefined" /\ Get(vocabulary, CharAt0(token)) # Undefined
    THEN Hit(st, Get(vocabulary, CharAt0(token)), CharAt0(token),
             Get(vocabulary, lowerCased))
  ELSE st

\* the body of words.forEach(token => ...); self is the engine
ForEachToken(self, st, token) ==
  LET lowerCased == toLowerCase(token)
      vocabulary == self.vocabulary.map
      vocabularyStem == self.vocabularyStem.map
  IN
  IF Includes(self.negations, lowerCased)
    THEN OnNegator(st)
  ELSE IF Includes(self.negationPunctuations, lowerCased)
    THEN OnNegationPunctuation(st)
  ELSE IF Get(vocabulary, lowerCased) # Undefined
    THEN Hit(st, Get(vocabulary, lowerCased), lowerCased, Get(vocabulary, lowerCased))
  ELSE IF self.stemmer # "undefined"
    THEN LET tokens == TokenizeAndStem(self.stemmer, lowerCased) IN
         IF Get(vocabulary, CharAt0(token)) # Undefined
           THEN Hit(st, Get(vocabulary, CharAt0(token)), CharAt0(token),
                    Get(vocabulary, lowerCased))
         ELSE IF Len(tokens) = 1 /\ LessThan(NumberProperty(Len(tokens), 0), 2)
           THEN IF Get(vocabularyStem, tokens[1]) # Undefined
                  THEN Hit(st, Get(vocabularyStem, tokens[1]), CharAt0(token),
                           Get(vocabularyStem, tokens[1]))
                ELSE st
         ELSE st
  ELSE st

\* the locals after the first k tokens of words
RECURSIVE ScanState(_, _, _)
ScanState(self, words, k) ==
  IF k = 0 THEN ScanStart
  ELSE ForEachToken(self, ScanState(self, words, k - 1), words[k])

getSentiment(self, words) ==
  IF ~Truthy(self.vocabulary)
    THEN [score |-> Num(0),
          numWords |-> Len(words),
          numHits |-> 0,
          comparative |-> Zero,
          type |-> self.settings.type,
          language |-> self.settings.language]
  ELSE LET st == ScanState(self, words, Len(words)) IN
         [score |-> st.score,
          numWords |-> Len(words),
          numHits |-> st.nrHits,
          range |-> normalize(st.score, DefaultAlpha),
          comparative |-> Divide(st.score, Len(words)),
          type |-> self.settings.type,
          language |-> self.settings.language,
          wordScores |-> st.wordScores]

-----------------------------------------------------------------------------
(* State *)

VARIABLES
  constructed,           \* the constructor has run
  settings,              \* this.settings
  dict,                  \* this.dict
  stemmer,               \* this.stemmer
  vocabularyFileName,    \* this.vocabularyFileName
  vocabulary,            \* this.vocabulary
  vocabularyStem,        \* this.vocabularyStem
  negations,             \* this.negations
  negationPunctuations,  \* this.negationPunctuations
  loadedFiles,           \* SentimentAnalyzer.loadedFiles (static)
  otherEngine,           \* the fields of another engine of the same process
  lastCall               \* the last method call on the engine and its outcome

engineVars == <<constructed, settings, dict, stemmer, vocabularyFileName, vocabulary,
                vocabularyStem, negations, negationPunctuations>>

vars == <<constructed, settings, dict, stemmer, vocabularyFileName, vocabulary,
          vocabularyStem, negations, negationPunctuations, loadedFiles, otherEngine,
          lastCall>>

\* the engine object
This ==
  [settings |-> settings, dict |-> dict, stemmer |-> stemmer,
   vocabulary |-> vocabulary, vocabularyStem |-> vocabularyStem,
   negations |-> negations, negationPunctuations |-> negationPunctuations]

\* the process before any engine is constructed
Init ==
  /\ constructed = FALSE
  /\ settings = ConstructorSettings(<<>>)
  /\ dict = NoObj
  /\ stemmer = "undefined"
  /\ vocabularyFileName = <<"", "">>
  /\ vocabulary = NoObj
  /\ vocabularyStem = NoObj
  /\ negations = <<>>
  /\ negationPunctuations = <<>>
  /\ loadedFiles = {}
  /\ otherEngine = [constructed |-> FALSE]
  /\ lastCall = [method |-> "none"]

\* new SentimentAnalyzer(settingsIn, dictIn)
Construct(settingsIn, dictIn) ==
  /\ ~constructed
  /\ LET s == ConstructorSettings(settingsIn)
         st == ConstructorStemmer(s)
         loaded == loadVocabulary(s, dictIn, st)
     IN /\ settings' = s
        /\ dict' = dictIn
        /\ stemmer' = st
        /\ vocabularyFileName' = loaded.vocabularyFileName
        /\ vocabulary' = loaded.vocabulary
        /\ vocabularyStem' = loaded.vocabularyStem
        /\ negations' = loaded.negations
        /\ negationPunctuations' = loaded.negationPunctuations
        /\ loadedFiles' = IF Truthy(loaded.vocabulary)
                            THEN loadedFiles \cup {loaded.vocabularyFileName}
                          ELSE loadedFiles
  /\ constructed' = TRUE
  /\ UNCHANGED <<lastCall, otherEngine>>

\* an engine exists and the (synchronous) caller is not inside a call
Ready == constructed /\ lastCall.method = "none"

\* engine.getSentiment(utterance), utterance an array of tokens
GetSentiment(utterance) ==
  /\ Ready
  /\ lastCall' = [method |-> "getSentiment", words |-> utterance,
                  outcome |-> "returned", value |-> getSentiment(This, utterance)]
  /\ UNCHANGED <<engineVars, loadedFiles, otherEngine>>

\* engine.normalize(score, alpha)
Normalize(score, alpha) ==
  /\ Ready
  /\ lastCall' = [method |-> "normalize", score |-> score, alpha |-> alpha,
                  outcome |-> "returned", value |-> normalize(Num(score), alpha)]
  /\ UNCHANGED <<engineVars, loadedFiles, otherEngine>>

\* the caller takes the returned value; the engine is ready for the next call
Return ==
  /\ lastCall.method # "none"
  /\ lastCall' = [method |-> "none"]
  /\ UNCHANGED <<engineVars, loadedFiles, otherEngine>>

Next ==
  \/ ~constructed /\ \E settingsIn \in SettingsInputs, dictIn \in DictInputs :
                        Construct(settingsIn, dictIn)
  \/ Ready /\ \E utterance \in Utterances : GetSentiment(utterance)
  \/ Ready /\ \E score \in -MaxArg..MaxArg, alpha \in -MaxArg..MaxArg :
                Normalize(score, alpha)
  \/ Return

Spec == Init /\ [][Next]_vars

-----------------------------------------------------------------------------
(* Series of getSentiment calls on one engine *)

\* Longest utterance of a call in a series.
MaxSeriesLen == 2

SeriesUtterances == SeqsUpTo({w_not, w_good, w_comma}, MaxSeriesLen)

\* the call that came before, as the caller holds it: nothing, or the
\* tokens and the result of the preceding getSentiment call
EarlierCall ==
  IF lastCall.method = "getSentiment"
    THEN <<[words |-> lastCall.words, value |-> lastCall.value]>>
  ELSE <<>>

\* GetSentimentInSeries whose scan goes on from the tokens of the preceding
\* call (score, negator and nrHits kept across calls instead of being locals)
GetSentimentInSeriesKeepsLocals(utterance) ==
  /\ constructed
  /\ lastCall.method \in {"none", "getSentiment"}
  /\ lastCall' = [method |-> "getSentiment", words |-> utterance,
                  outcome |-> "returned",
                  value |-> IF lastCall.method = "getSentiment"
                              THEN getSentiment(This, lastCall.words \o utterance)
                            ELSE getSentiment(This, utterance),
                  earlier |-> EarlierCall]
  /\ UNCHANGED <<engineVars, loadedFiles, otherEngine>>

\* engine.getSentiment(utterance), called first or right after another
\* getSentiment call whose tokens and result the caller keeps
GetSentimentInSeries(utterance) ==
  /\ constructed
  /\ lastCall.method \in {"none", "getSentiment"}
  /\ lastCall' = [method |-> "getSentiment", words |-> utterance,
                  outcome |-> "returned", value |-> getSentiment(This, utterance),
                  earlier |-> EarlierCall]
  /\ UNCHANGED <<engineVars, loadedFiles, otherEngine>>

NextSeries ==
  \/ ~constructed /\ \E settingsIn \in SettingsInputs, dictIn \in DictInputs :
                        Construct(settingsIn, dictIn)
  \/ constructed /\ \E utterance \in SeriesUtterances : GetSentimentInSeries(utterance)
  \/ Return

SpecSeries == Init /\ [][NextSeries]_vars

-----------------------------------------------------------------------------
(* Two engines in one process *)

\* ConstructOther with one parsed lexicon object per file shared by the
\* engines: the merge of the other engine's dict writes into the lexicon of
\* this engine
ConstructOtherSharingLexicon(settingsIn, dictIn) ==
  /\ ~otherEngine.constructed
  /\ LET s == ConstructorSettings(settingsIn)
         st == ConstructorStemmer(s)
         loaded == loadVocabulary(s, dictIn, st)
     IN /\ otherEngine' = [constructed |-> TRUE, first |-> ~constructed,
                     settings |-> s, dict |-> dictIn, stemmer |-> st,
                     vocabularyFileName |-> loaded.vocabularyFileName,
                     vocabulary |-> loaded.vocabulary,
                     vocabularyStem |-> loaded.vocabularyStem,
                     negations |-> loaded.negations,
                     negationPunctuations |-> loaded.negationPunctuations]
        /\ vocabulary' = IF constructed /\ Truthy(vocabulary)
                            /\ loaded.vocabularyFileName = vocabularyFileName
                           THEN Obj(addVocabulary(vocabulary.map, dictIn))
                         ELSE vocabulary
        /\ loadedFiles' = IF Truthy(loaded.vocabulary)
                            THEN loadedFiles \cup {loaded.vocabularyFileName}
                          ELSE loadedFiles
  /\ UNCHANGED <<constructed, settings, dict, stemmer, vocabularyFileName,
                 vocabularyStem, negations, negationPunctuations, lastCall>>

\* new SentimentAnalyzer(settingsIn, dictIn) for another engine, before or
\* after this engine is constructed; first records which of the two it was
ConstructOther(settingsIn, dictIn) ==
  /\ ~otherEngine.constructed
  /\ LET s == ConstructorSettings(settingsIn)
         st == ConstructorStemmer(s)
         loaded == loadVocabulary(s, dictIn, st)
     IN /\ otherEngine' = [constructed |-> TRUE, first |-> ~constructed,
                     settings |-> s, dict |-> dictIn, stemmer |-> st,
                     vocabularyFileName |-> loaded.vocabularyFileName,
                     vocabulary |-> loaded.vocabulary,
                     vocabularyStem |-> loaded.vocabularyStem,
                     negations |-> loaded.negations,
                     negationPunctuations |-> loaded.negationPunctuations]
        /\ loadedFiles' = IF Truthy(loaded.vocabulary)
                            THEN loadedFiles \cup {loaded.vocabularyFileName}
                          ELSE loadedFiles
  /\ UNCHANGED <<engineVars, lastCall>>

NextEngines ==
  \/ ~constructed /\ \E settingsIn \in SettingsInputs, dictIn \in DictInputs :
                        Construct(settingsIn, dictIn)
  \/ ~otherEngine.constructed
       /\ \E settingsIn \in SettingsInputs, dictIn \in DictInputs :
            ConstructOther(settingsIn, dictIn)
  \/ Ready /\ \E utterance \in SeriesUtterances : GetSentiment(utterance)
  \/ Return

SpecEngines == Init /\ [][NextEngines]_vars

-----------------------------------------------------------------------------
(* Vocabulary of the properties *)

\* the last call was getSentiment; its argument and its result
Called == lastCall.method = "getSentiment"
Loaded == Truthy(vocabulary)
LexiconFileMissing == vocabularyFileName \notin VocabularyFiles

IsNegator(token) == Includes(negations, toLowerCase(token))
IsNegationPunctuation(token) ==
  ~IsNegator(token) /\ Includes(negationPunctuations, toLowerCase(token))
HasExactEntry(token) == toLowerCase(token) \in OwnKeys(vocabulary.map)
ExactWeight(token) == OwnValue(vocabulary.map, toLowerCase(token))

\* the locals of the last call after each of its tokens (0: before the first)
ScanStates == [k \in 0..Len(lastCall.words) |-> ScanState(This, lastCall.words, k)]

\* the stems of a token, and whether the stemmed fallback of the
\* specification applies to it
StemsOf(token) == TokenizeAndStem(stemmer, toLowerCase(token))
HasStemEntry(token) ==
  /\ stemmer # "undefined"
  /\ Len(StemsOf(token)) = 1
  /\ StemsOf(token)[1] \in OwnKeys(vocabularyStem.map)

IsZeroNumber(q) == q.t = "number" /\ q.num = 0

\* n / sqrt(r) lies in [-1, 1]
InUnitInterval(x) == x.t = "number" /\ x.rad > 0 /\ x.num * x.num <= x.rad

-----------------------------------------------------------------------------
(* C1 *)

\* C1: on an empty token sequence getSentiment returns score 0, numWords 0,
\* numHits 0 and comparative 0 (a number, not NaN), whether or not a lexicon
\* is loaded.
C1_EmptyUtteranceIsAllZero ==
  (Called /\ lastCall.words = <<>>) =>
    /\ lastCall.value.score = Num(0)
    /\ lastCall.value.numWords = 0
    /\ lastCall.value.numHits = 0
    /\ IsZeroNumber(lastCall.value.comparative)

-----------------------------------------------------------------------------
(* C2 *)

\* the multiplier in force at position k by position: -1 when the
\* most recent negator or negation punctuation before k is a negator
ClaimedMultiplier(words, k) ==
  LET marks == {j \in 1..(k - 1) :
                  IsNegator(words[j]) \/ IsNegationPunctuation(words[j])}
  IN IF marks = {} THEN 1
     ELSE LET last == CHOOSE j \in marks : \A i \in marks : i <= j
          IN IF IsNegator(words[last]) THEN -1 ELSE 1

\* C2: with a loaded lexicon the multiplier starts at +1, a negator sets it
\* to -1 (a second negator leaves it there) and only negation punctuation
\* resets it to +1; a token with an exact lexicon entry contributes
\* -weight exactly when the most recent negator or punctuation before it is
\* a negator and +weight otherwise; [not, good, ",", bad] with good = 3 and
\* bad = -2 scores -5.
C2_NegationScope ==
  (Called /\ Loaded) =>
    /\ \A at \in {ScanStates}, k \in 1..Len(lastCall.words) :
         LET token == lastCall.words[k]
             contribution == ClaimedMultiplier(lastCall.words, k) * ExactWeight(token)
         IN /\ at[k - 1].negator = ClaimedMultiplier(lastCall.words, k)
            /\ (HasExactEntry(token) /\ ~IsNegator(token) /\ ~IsNegationPunctuation(token)) =>
                 /\ at[k].score = Plus(at[k - 1].score, Num(contribution))
                 /\ at[k].wordScores =
                      Append(at[k - 1].wordScores,
                             [word |-> toLowerCase(token), score |-> Num(contribution)])
    /\ ( /\ lastCall.words = ExampleUtterance
         /\ IsNegator(w_not) /\ IsNegationPunctuation(w_comma)
         /\ Get(vocabulary.map, w_good) = Num(3)
         /\ Get(vocabulary.map, w_bad) = Num(-2) )
       => lastCall.value.score = Num(-5)

\* the example utterance has been scored, negated word and reset included
C2_Witness ==
  /\ Called /\ Loaded
  /\ lastCall.words = ExampleUtterance
  /\ lastCall.value.score = Num(-5)
  /\ lastCall.value.wordScores =
       << [word |-> w_good, score |-> Num(-3)], [word |-> w_bad, score |-> Num(-2)] >>

-----------------------------------------------------------------------------
(* C3 *)

\* C3: when the lexicon file of the engine's (language, type) could not be
\* loaded, the engine has no lexicon even if an override dictionary was
\* given, and getSentiment returns (does not throw) score 0, numHits 0,
\* comparative 0, no range, no wordScores, numWords = number of tokens.
C3_MissingLexiconDegrades ==
  (constructed /\ LexiconFileMissing) =>
    /\ ~Truthy(vocabulary)
    /\ Called =>
         /\ lastCall.outcome = "returned"
         /\ lastCall.value.score = Num(0)
         /\ lastCall.value.numHits = 0
         /\ lastCall.value.comparative = Zero
         /\ "range" \notin DOMAIN lastCall.value
         /\ "wordScores" \notin DOMAIN lastCall.value
         /\ lastCall.value.numWords = Len(lastCall.words)

\* an engine given an override dictionary but no lexicon file has scored
\* several tokens
C3_Witness ==
  /\ Called /\ LexiconFileMissing /\ Truthy(dict)
  /\ Len(lastCall.words) >= 2
  /\ lastCall.value.numWords = Len(lastCall.words)

-----------------------------------------------------------------------------
(* C4 *)

\* the lexicon after construction is the base lexicon overlaid with dict
OverrideMerged ==
  LET base == ReadVocabularyFile(vocabularyFileName) IN
  /\ OwnKeys(vocabulary.map) = OwnKeys(base) \cup OwnKeys(dict.map)
  /\ \A key \in OwnKeys(dict.map) :
       OwnValue(vocabulary.map, key) = OwnValue(dict.map, key)
  /\ \A key \in OwnKeys(base) \ OwnKeys(dict.map) :
       OwnValue(vocabulary.map, key) = OwnValue(base, key)

\* the last call scored an utterance made of one override key only
ScoredOneOverriddenWord ==
  /\ Called
  /\ Len(lastCall.words) = 1
  /\ lastCall.words[1] \in OwnKeys(dict.map)

\* C4 as stated: with an override dictionary and a loaded base lexicon, the
\* lexicon maps every override key to the override weight and every other
\* base key to its base weight, and an utterance made of one overridden
\* word only scores the override weight.
C4_OverrideAsStated ==
  (constructed /\ Truthy(dict) /\ ~LexiconFileMissing) =>
    /\ OverrideMerged
    /\ ScoredOneOverriddenWord =>
         lastCall.value.score = Num(OwnValue(dict.map, lastCall.words[1]))

\* C4 (amended): as stated, for an overridden word that is written in lower
\* case and is neither a negator nor negation punctuation.
C4_OverrideWins ==
  (constructed /\ Truthy(dict) /\ ~LexiconFileMissing) =>
    /\ OverrideMerged
    /\ ( /\ ScoredOneOverriddenWord
         /\ toLowerCase(lastCall.words[1]) = lastCall.words[1]
         /\ ~IsNegator(lastCall.words[1])
         /\ ~IsNegationPunctuation(lastCall.words[1]) )
       => lastCall.value.score = Num(OwnValue(dict.map, lastCall.words[1]))

\* a word with base weight 3 and override weight 5 has been scored alone
C4_Witness ==
  /\ ScoredOneOverriddenWord /\ ~LexiconFileMissing
  /\ lastCall.words = <<w_good>>
  /\ Get(ReadVocabularyFile(vocabularyFileName), w_good) = Num(3)
  /\ OwnValue(dict.map, w_good) = 5
  /\ lastCall.value.score = Num(5)

-----------------------------------------------------------------------------
(* C5 *)

\* C5: for every engine and token sequence, numHits <= numWords and
\* numWords is the number of input tokens, negators and negation
\* punctuation included.
C5_HitsBoundedByWords ==
  Called =>
    /\ lastCall.value.numHits <= lastCall.value.numWords
    /\ lastCall.value.numWords = Len(lastCall.words)

\* a scored utterance with a negator, negation punctuation and a word hit,
\* on an engine with a stemmer
C5_Witness ==
  /\ Called /\ Loaded /\ stemmer # "undefined"
  /\ \E i, j, k \in 1..Len(lastCall.words) :
       /\ IsNegator(lastCall.words[i])
       /\ IsNegationPunctuation(lastCall.words[j])
       /\ HasExactEntry(lastCall.words[k]) /\ ~IsNegator(lastCall.words[k])
  /\ lastCall.value.numHits = 2
  /\ lastCall.value.numWords = 3

-----------------------------------------------------------------------------
(* C6 *)

\* the utterances that differ from words in the letter case of one token
CaseVariants(words) ==
  {[words EXCEPT ![i] = t] :
     i \in 1..Len(words),
     t \in {u \in Tokens : \E j \in 1..Len(words) : toLowerCase(u) = toLowerCase(words[j])}}
  \cap {v \in Utterances :
          /\ Len(v) = Len(words)
          /\ \A i \in 1..Len(v) : toLowerCase(v[i]) = toLowerCase(words[i])}

\* C6: replacing a token by one that differs only in letter case leaves
\* score, numHits and wordScores unchanged, for every engine.
C6_CaseInsensitive ==
  Called =>
    \A variant \in CaseVariants(lastCall.words) :
      LET other == getSentiment(This, variant) IN
      /\ other.score = lastCall.value.score
      /\ other.numHits = lastCall.value.numHits
      /\ Loaded => other.wordScores = lastCall.value.wordScores

-----------------------------------------------------------------------------
(* C7 *)

\* C7: with stemming enabled, a token that is no negator, no negation
\* punctuation and has no exact lexicon entry, and whose single stem has an
\* entry in the stemmed lexicon, adds multiplier x stemmed weight to score,
\* counts as one hit and records one WordScore entry.
C7_StemmedFallback ==
  (Called /\ Loaded /\ stemmer # "undefined") =>
    \A at \in {ScanStates}, k \in 1..Len(lastCall.words) :
      LET token == lastCall.words[k] IN
      ( /\ ~IsNegator(token) /\ ~IsNegationPunctuation(token)
        /\ ~HasExactEntry(token)
        /\ HasStemEntry(token) )
      => LET contribution ==
               at[k - 1].negator * OwnValue(vocabularyStem.map, StemsOf(token)[1])
         IN /\ at[k].score = Plus(at[k - 1].score, Num(contribution))
            /\ at[k].nrHits = at[k - 1].nrHits + 1
            /\ Len(at[k].wordScores) = Len(at[k - 1].wordScores) + 1

-----------------------------------------------------------------------------
(* C8 *)

\* C8: a token that is no negator, no negation punctuation, has no exact
\* lexicon entry and no stemmed-lexicon entry for its single stem (or the
\* engine has no stemmer) leaves score and numHits unchanged and adds no
\* WordScore entry, whatever keys the lexicon holds.
C8_UnmatchedTokenContributesNothing ==
  (Called /\ Loaded) =>
    \A at \in {ScanStates}, k \in 1..Len(lastCall.words) :
      LET token == lastCall.words[k] IN
      ( /\ ~IsNegator(token) /\ ~IsNegationPunctuation(token)
        /\ ~HasExactEntry(token)
        /\ ~HasStemEntry(token) )
      => /\ at[k].score = at[k - 1].score
         /\ at[k].nrHits = at[k - 1].nrHits
         /\ at[k].wordScores = at[k - 1].wordScores

-----------------------------------------------------------------------------
(* C9 *)

\* C9: whenever the result has a range field, range lies in [-1, 1] and is
\* normalize(score) = score / sqrt(score^2 + 15), clamped.
C9_RangeInUnitInterval ==
  (Called /\ "range" \in DOMAIN lastCall.value) =>
    /\ InUnitInterval(lastCall.value.range)
    /\ lastCall.value.range = normalize(lastCall.value.score, DefaultAlpha)

-----------------------------------------------------------------------------
(* C10 *)

\* C10: normalize called with alpha <= 0 fails with an error and returns
\* no value.
C10_InvalidAlphaFailsFast ==
  (lastCall.method = "normalize" /\ lastCall.alpha <= 0) =>
    lastCall.outcome = "threw"

-----------------------------------------------------------------------------
(* C11 *)

\* the last call came right after another getSentiment call
CalledAgain == Called /\ "earlier" \in DOMAIN lastCall /\ Len(lastCall.earlier) = 1

\* the first token of words that is neither negator nor negation
\* punctuation and has an exact lexicon entry is not preceded by a negator
FirstWordIsNotNegated(words) ==
  /\ Len(words) >= 1
  /\ HasExactEntry(words[1])
  /\ ~IsNegator(words[1]) /\ ~IsNegationPunctuation(words[1])

\* a call leaves the four tables of the engine as they are
TablesUnchanged ==
  UNCHANGED <<vocabulary, vocabularyStem, negations, negationPunctuations>>

\* C11: in a series of getSentiment calls on one engine every call leaves
\* the lexicon, the stemmed lexicon, the negators and the negation
\* punctuation unchanged; scoring the same tokens twice gives equal
\* results, and a negator of the preceding call does not negate a word of
\* the next call.
C11_ScoringIsStateless ==
  /\ [](CalledAgain =>
          /\ (lastCall.earlier[1].words = lastCall.words
                => lastCall.earlier[1].value = lastCall.value)
          /\ (Loaded /\ FirstWordIsNotNegated(lastCall.words))
                => /\ Len(lastCall.value.wordScores) >= 1
                   /\ lastCall.value.wordScores[1] =
                        [word |-> toLowerCase(lastCall.words[1]),
                         score |-> Num(ExactWeight(lastCall.words[1]))])
  /\ [][constructed => TablesUnchanged]_vars

\* a word has been scored with its positive weight right after a call whose
\* last token was a negator, and the same utterance has been scored twice
C11_Witness ==
  /\ CalledAgain /\ Loaded
  /\ \/ /\ lastCall.earlier[1].words = <<w_good, w_not>>
        /\ lastCall.words = <<w_good>>
        /\ lastCall.value.score = Num(3)
     \/ /\ lastCall.earlier[1].words = <<w_not, w_good>>
        /\ lastCall.words = <<w_not, w_good>>
        /\ lastCall.value.score = Num(-3)
        /\ lastCall.earlier[1].value.score = Num(-3)

-----------------------------------------------------------------------------
(* C12 *)

NegatorPositions == {k \in 1..Len(lastCall.words) : IsNegator(lastCall.words[k])}

\* C12: with a loaded lexicon numHits is the number of negator tokens plus
\* the number of wordScores entries; a negator is a hit that adds no entry
\* and nothing to score; negation punctuation adds no hit and no entry.
C12_HitAccounting ==
  (Called /\ Loaded) =>
    /\ lastCall.value.numHits =
         Cardinality(NegatorPositions) + Len(lastCall.value.wordScores)
    /\ \A at \in {ScanStates}, k \in 1..Len(lastCall.words) :
         /\ IsNegator(lastCall.words[k]) =>
              /\ at[k].nrHits = at[k - 1].nrHits + 1
              /\ at[k].wordScores = at[k - 1].wordScores
              /\ at[k].score = at[k - 1].score
         /\ IsNegationPunctuation(lastCall.words[k]) =>
              /\ at[k].nrHits = at[k - 1].nrHits
              /\ at[k].wordScores = at[k - 1].wordScores

\* [not, good, ",", bad] scored with the afinn lexicon: three hits, two entries
C12_Witness ==
  /\ Called /\ Loaded
  /\ lastCall.words = ExampleUtterance
  /\ IsNegator(w_not) /\ IsNegationPunctuation(w_comma)
  /\ lastCall.value.numHits = 3
  /\ Len(lastCall.value.wordScores) = 2

-----------------------------------------------------------------------------
(* C13 *)

\* what the negator, the punctuation and the exact branch do to the locals
AsNegatorOnly(before, after) ==
  after = [before EXCEPT !.negator = -1, !.nrHits = @ + 1]
AsPunctuationOnly(before, after) ==
  after = [before EXCEPT !.negator = 1]
AsExactEntry(before, after, token) ==
  after = [before EXCEPT
             !.score = Plus(@, Num(before.negator * ExactWeight(token))),
             !.nrHits = @ + 1,
             !.wordScores = Append(@, [word |-> toLowerCase(token),
                                       score |-> Num(before.negator * ExactWeight(token))])]

\* C13: the negator test comes first, then negation punctuation, then the
\* exact lexicon entry: a negator that is also a lexicon key only negates,
\* negation punctuation that is also a lexicon key only resets the negation,
\* a token with an exact entry is scored with the exact weight whatever its
\* stem weighs, and no token adds more than one hit or one entry.
C13_LookupPrecedence ==
  (Called /\ Loaded) =>
    \A at \in {ScanStates}, k \in 1..Len(lastCall.words) :
      /\ IsNegator(lastCall.words[k]) => AsNegatorOnly(at[k - 1], at[k])
      /\ IsNegationPunctuation(lastCall.words[k]) => AsPunctuationOnly(at[k - 1], at[k])
      /\ ( /\ ~IsNegator(lastCall.words[k])
           /\ ~IsNegationPunctuation(lastCall.words[k])
           /\ HasExactEntry(lastCall.words[k]) )
           => AsExactEntry(at[k - 1], at[k], lastCall.words[k])
      /\ at[k].nrHits <= at[k - 1].nrHits + 1
      /\ Len(at[k].wordScores) <= Len(at[k - 1].wordScores) + 1

\* the lexicon has the negator and the negation punctuation as keys, and
\* [not, ",", bad] has been scored: only the word bad has an entry
C13_Witness ==
  /\ Called /\ Loaded
  /\ IsNegator(w_not) /\ HasExactEntry(w_not)
  /\ IsNegationPunctuation(w_comma) /\ HasExactEntry(w_comma)
  /\ lastCall.words = <<w_not, w_comma, w_bad>>
  /\ lastCall.value.score = Num(-1)
  /\ lastCall.value.numHits = 2
  /\ Len(lastCall.value.wordScores) = 1

-----------------------------------------------------------------------------
(* C14 *)

\* the sum of the scores of the first i entries
RECURSIVE SumOfScores(_, _)
SumOfScores(wordScores, i) ==
  IF i = 0 THEN Num(0)
  ELSE Plus(SumOfScores(wordScores, i - 1), wordScores[i].score)

\* the token between two scan states has contributed
Contributed(before, after) ==
  after.score # before.score \/ after.wordScores # before.wordScores

\* C14: every contributing token appends one entry whose word is the
\* lowercased token and whose score is a number, the amount added to the
\* score; the score of the result is the sum of the scores of wordScores.
C14_WordScoresFaithful ==
  (Called /\ Loaded) =>
    /\ \A at \in {ScanStates}, k \in 1..Len(lastCall.words) :
         Contributed(at[k - 1], at[k]) =>
           /\ Len(at[k].wordScores) = Len(at[k - 1].wordScores) + 1
           /\ \A entry \in {at[k].wordScores[Len(at[k].wordScores)]} :
                /\ at[k].wordScores = Append(at[k - 1].wordScores, entry)
                /\ entry.word = toLowerCase(lastCall.words[k])
                /\ IsNumber(entry.score)
                /\ at[k].score = Plus(at[k - 1].score, entry.score)
    /\ IsNumber(lastCall.value.score)
    /\ lastCall.value.score =
         SumOfScores(lastCall.value.wordScores, Len(lastCall.value.wordScores))

-----------------------------------------------------------------------------
(* C15 *)

\* the lexicon file of the engine as read, before the dict is merged
BaseLexicon == ReadVocabularyFile(vocabularyFileName)

\* the stemming of a lexicon word during construction
WordStems(word) == TokenizeAndStem(stemmer, word)

StemmedLexiconBuilt == constructed /\ Loaded /\ stemmer # "undefined"

\* C15: the stemmed lexicon is derived from the lexicon after the dict is
\* merged: every entry is the merged weight of a lexicon word that stems
\* to exactly that stem, the stem of an overridden word does not keep the
\* base weight of that word, and a word only the dict has contributes its
\* stem.
C15_MergeBeforeStems ==
  StemmedLexiconBuilt =>
    /\ \A stem \in OwnKeys(vocabularyStem.map) :
         \E word \in OwnKeys(vocabulary.map) :
           /\ WordStems(word) = <<stem>>
           /\ OwnValue(vocabularyStem.map, stem) = OwnValue(vocabulary.map, word)
    /\ Truthy(dict) =>
         \A key \in OwnKeys(dict.map) :
           Len(WordStems(key)) = 1 =>
             /\ WordStems(key)[1] \in OwnKeys(vocabularyStem.map)
             /\ ( /\ key \in OwnKeys(BaseLexicon)
                  /\ OwnValue(BaseLexicon, key) # OwnValue(dict.map, key)
                  /\ OwnValue(vocabularyStem.map, WordStems(key)[1])
                       = OwnValue(BaseLexicon, key) )
                  => \E word \in OwnKeys(vocabulary.map) \ {key} :
                       /\ WordStems(word) = WordStems(key)
                       /\ OwnValue(vocabulary.map, word) = OwnValue(BaseLexicon, key)

\* the dict replaces the base weight -2 of bad by -1 and adds Goods: the
\* stem bad weighs -1 and the stem of Goods is a key of the stemmed lexicon
C15_Witness ==
  /\ StemmedLexiconBuilt /\ Truthy(dict)
  /\ Get(BaseLexicon, w_bad) = Num(-2)
  /\ Get(dict.map, w_bad) = Num(-1)
  /\ WordStems(w_bad) = <<w_bad>>
  /\ Get(vocabularyStem.map, w_bad) = Num(-1)
  /\ w_Goods \notin OwnKeys(BaseLexicon)
  /\ Len(WordStems(w_Goods)) = 1
  /\ Get(vocabularyStem.map, WordStems(w_Goods)[1]) = Num(7)

-----------------------------------------------------------------------------
(* C16 *)

\* the lexicon words whose stemming yields exactly one token
SingleStemWords == {word \in OwnKeys(vocabulary.map) : Len(WordStems(word)) = 1}

\* C16: the keys of the stemmed lexicon are the stems of the lexicon words
\* that stem to exactly one token, so a word that stems to no token or to
\* several adds no entry; the stemmed lexicon exists only with a loaded
\* lexicon and is empty without a stemmer.
C16_StemmedLexiconKeys ==
  constructed =>
    /\ Truthy(vocabularyStem) <=> Loaded
    /\ (Loaded /\ stemmer = "undefined") => vocabularyStem = Obj(<<>>)
    /\ (Loaded /\ stemmer # "undefined") =>
         OwnKeys(vocabularyStem.map) = {WordStems(word)[1] : word \in SingleStemWords}

\* the lexicon has good-bad, which stems to two tokens, and not, which
\* stems to none; neither good nor not is a key of the stemmed lexicon
C16_Witness ==
  /\ StemmedLexiconBuilt
  /\ w_good_bad \in OwnKeys(vocabulary.map) /\ Len(WordStems(w_good_bad)) = 2
  /\ w_not \in OwnKeys(vocabulary.map) /\ Len(WordStems(w_not)) = 0
  /\ w_good \notin OwnKeys(vocabularyStem.map)
  /\ w_not \notin OwnKeys(vocabularyStem.map)
  /\ w_bad \in OwnKeys(vocabularyStem.map)

-----------------------------------------------------------------------------
(* C17 *)

\* the fields loadVocabulary gives an engine that is built alone, in a
\* fresh process, from the given settings and dict
BuiltAlone(s, d) == loadVocabulary(s, d, ConstructorStemmer(s))

\* the engine object that is built alone from the settings and the dict of
\* this engine
ThisBuiltAlone ==
  [settings |-> settings, dict |-> dict, stemmer |-> ConstructorStemmer(settings),
   vocabulary |-> BuiltAlone(settings, dict).vocabulary,
   vocabularyStem |-> BuiltAlone(settings, dict).vocabularyStem,
   negations |-> BuiltAlone(settings, dict).negations,
   negationPunctuations |-> BuiltAlone(settings, dict).negationPunctuations]

\* C17: whatever other engine is constructed before or after it, an engine
\* has the lexicon and gives the results of an engine built alone from its
\* own settings and dict (and so has the other engine); constructing the
\* other engine leaves its tables unchanged, and loadedFiles only grows.
C17_EngineIndependence ==
  /\ [](constructed =>
          /\ This = ThisBuiltAlone
          /\ vocabularyFileName = BuiltAlone(settings, dict).vocabularyFileName
          /\ Called => lastCall.value = getSentiment(ThisBuiltAlone, lastCall.words))
  /\ [](otherEngine.constructed =>
          /\ otherEngine.vocabulary =
               BuiltAlone(otherEngine.settings, otherEngine.dict).vocabulary
          /\ otherEngine.vocabularyStem =
               BuiltAlone(otherEngine.settings, otherEngine.dict).vocabularyStem)
  /\ [][ /\ loadedFiles \subseteq loadedFiles'
         /\ constructed => TablesUnchanged ]_vars

\* this engine was built without dict after another engine of the same
\* lexicon file was built with a dict that replaces the weight of good: the
\* file was in loadedFiles already, and good scores its base weight 3
C17_Witness ==
  /\ Called /\ Loaded
  /\ otherEngine.constructed /\ otherEngine.first
  /\ otherEngine.vocabularyFileName = vocabularyFileName
  /\ ~Truthy(dict)
  /\ Get(otherEngine.vocabulary.map, w_good) = Num(5)
  /\ Get(vocabulary.map, w_good) = Num(3)
  /\ lastCall.words = <<w_good>>
  /\ lastCall.value.score = Num(3)

====
